---- MODULE Spec2Model ----
(***************************************************************************)
(* Model of src/main.go: the Kong workspace metadata counter.              *)
(*                                                                         *)
(* The file holds two variants of the program:                             *)
(*   "reflect"  lines 1-228   Metadata.Counts is a fixed struct, counts    *)
(*                            are aggregated by reflection, headers are    *)
(*                            resolved once by getHeaders                  *)
(*   "map"      lines 230-446 Metadata.Counts is map[string]int, headers   *)
(*                            are parsed per request, --meta selects the   *)
(*                            tables, the totals table is sorted           *)
(*                                                                         *)
(* Strings are sequences of one-character strings, so that Split,          *)
(* TrimSpace, header-key canonicalisation and Itoa do what the code does.  *)
(***************************************************************************)
EXTENDS Integers, Sequences, FiniteSets, TLC

VARIABLES
    variant,                \* which of the two programs runs
    headersFlag,            \* --headers
    envToken,               \* X_ADMIN_TOKEN
    metaFlag,               \* --meta (map variant only)
    listOutcome,            \* what GET <addr>/workspaces will yield
    server,                 \* what GET <addr>/workspaces/<name>/meta will yield
    pc,                     \* position in main
    headers,                \* main's headers (reflect variant)
    workspaces,             \* main's workspaces
    idx,                    \* position of the range loop
    counts,                 \* main's counts
    workspaceMetadataList,  \* main's workspaceMetadataList
    requests,               \* metadata requests handed to client.Do, in order
    output,                 \* what was written to standard output, in order
    mergeInputs,            \* aggregation harness: the count maps to merge
    mergePending            \* aggregation harness: indices not merged yet

vars == <<variant, headersFlag, envToken, metaFlag, listOutcome, server, pc,
          headers, workspaces, idx, counts, workspaceMetadataList, requests,
          output, mergeInputs, mergePending>>

(***************************************************************************)
(* Bounds                                                                  *)
(***************************************************************************)
MaxWorkspaces == 3
MaxCount == 2
MaxFlagLen == 2
MaxMerge == 3

(***************************************************************************)
(* Generic helpers                                                         *)
(***************************************************************************)
EmptyMap == [x \in {} |-> 0]

SeqsUpTo(S, n) == UNION { [1..k -> S] : k \in 0..n }

PartialMaps(K, V) == UNION { [D -> V] : D \in SUBSET K }

Get(m, k) == IF k \in DOMAIN m THEN m[k] ELSE 0

(***************************************************************************)
(* Strings                                                                 *)
(***************************************************************************)
LowerLetters == {"a", "c", "d", "e", "i", "k", "m", "n", "o", "r", "s", "t", "v", "w", "x"}

ToUpper(c) ==
    CASE c = "a" -> "A" [] c = "c" -> "C" [] c = "d" -> "D" [] c = "e" -> "E"
      [] c = "i" -> "I" [] c = "k" -> "K" [] c = "m" -> "M" [] c = "n" -> "N"
      [] c = "o" -> "O" [] c = "r" -> "R" [] c = "s" -> "S" [] c = "t" -> "T"
      [] c = "v" -> "V" [] c = "w" -> "W" [] c = "x" -> "X"
      [] OTHER -> c

UpperLetters == { ToUpper(c) : c \in LowerLetters }

ToLower(c) ==
    IF c \in UpperLetters THEN CHOOSE l \in LowerLetters : ToUpper(l) = c ELSE c

\* strings.Split(s, ":") for a one-character separator
RECURSIVE Split(_, _)
Split(s, sep) ==
    IF \A i \in DOMAIN s : s[i] # sep
    THEN <<s>>
    ELSE LET i == CHOOSE j \in DOMAIN s :
                      s[j] = sep /\ \A k \in 1..(j - 1) : s[k] # sep
         IN  <<SubSeq(s, 1, i - 1)>> \o Split(SubSeq(s, i + 1, Len(s)), sep)

\* strings.TrimSpace
RECURSIVE TrimLeft(_)
TrimLeft(s) ==
    IF s # <<>> /\ Head(s) = " " THEN TrimLeft(Tail(s)) ELSE s

RECURSIVE TrimRight(_)
TrimRight(s) ==
    IF s # <<>> /\ s[Len(s)] = " " THEN TrimRight(SubSeq(s, 1, Len(s) - 1)) ELSE s

TrimSpace(s) == TrimRight(TrimLeft(s))

\* strconv.Itoa / fmt.Sprint of an int
Digit(d) ==
    CASE d = 0 -> "0" [] d = 1 -> "1" [] d = 2 -> "2" [] d = 3 -> "3" [] d = 4 -> "4"
      [] d = 5 -> "5" [] d = 6 -> "6" [] d = 7 -> "7" [] d = 8 -> "8" [] d = 9 -> "9"

RECURSIVE Digits(_)
Digits(n) ==
    IF n < 10 THEN <<Digit(n)>> ELSE Digits(n \div 10) \o <<Digit(n % 10)>>

Itoa(n) == IF n < 0 THEN <<"-">> \o Digits(0 - n) ELSE Digits(n)

(***************************************************************************)
(* HTTP headers                                                            *)
(***************************************************************************)
\* the characters net/http accepts in a header field name
IsTokenChar(c) == c \in LowerLetters \cup UpperLetters \cup {"-"}

\* http.Header.Set stores the value under textproto.CanonicalMIMEHeaderKey(key):
\* first letter and every letter after "-" upper case, the others lower case;
\* a key holding a character that is no token character is kept as it is
CanonicalMIMEHeaderKey(k) ==
    IF \E i \in DOMAIN k : ~IsTokenChar(k[i])
    THEN k
    ELSE [i \in DOMAIN k |->
            IF i = 1 \/ k[i - 1] = "-" THEN ToUpper(k[i]) ELSE ToLower(k[i])]

HeaderSet(h, key, value) ==
    LET ck == CanonicalMIMEHeaderKey(key)
    IN  [x \in DOMAIN h \cup {ck} |-> IF x = ck THEN value ELSE h[x]]

NoHeaders == [x \in {} |-> <<>>]

XAdminToken == <<"x", "-", "a", "d", "m", "i", "n", "-", "t", "o", "k", "e", "n">>

\* a header flag test that accepts a value holding further colons
ApplyHeaderFlagDropColon(h, flag) ==
    IF flag # <<>>
    THEN LET headerParts == Split(flag, ":")
         IN  IF Len(headerParts) >= 2
             THEN HeaderSet(h, TrimSpace(headerParts[1]), TrimSpace(headerParts[2]))
             ELSE h
    ELSE h

\* the header flag applied to a header map h: lines 213-220 and 356-361
ApplyHeaderFlag(h, flag) ==
    IF flag # <<>>
    THEN LET headerParts == Split(flag, ":")
         IN  IF Len(headerParts) = 2
             THEN HeaderSet(h, TrimSpace(headerParts[1]), TrimSpace(headerParts[2]))
             ELSE h
    ELSE h

\* getHeaders (reflect variant)
getHeaders(flag, token) ==
    LET h1 == ApplyHeaderFlag(NoHeaders, flag)
    IN  IF token # <<>> THEN HeaderSet(h1, XAdminToken, token) ELSE h1

\* the header map of one metadata request
RequestHeader(v, resolved, flag) ==
    IF v = "reflect" THEN resolved ELSE ApplyHeaderFlag(NoHeaders, flag)

\* client.Do refuses a request whose header holds an invalid field name
ValidHeaderFieldName(k) == k # <<>> /\ \A i \in DOMAIN k : IsTokenChar(k[i])

HeaderSendable(h) == \A k \in DOMAIN h : ValidHeaderFieldName(k)

(***************************************************************************)
(* Metadata and its aggregation                                            *)
(***************************************************************************)
Names == {"a", "b"}

ErrKinds == {"doErr", "readErr", "decodeErr"}

Failure(k) == [kind |-> k, body |-> EmptyMap]

Success(b) == [kind |-> "ok", body |-> b]

IntField(n, v) == [name |-> n, kind |-> "int", value |-> v]

\* json.Unmarshal into the reflect variant's Metadata: a struct holding the
\* struct Counts of five int fields; an absent key leaves 0, other keys are dropped
DecodeStruct(body) ==
    << [name |-> "Counts", kind |-> "struct", value |->
          << IntField("Plugins", Get(body, "plugins")),
             IntField("Targets", Get(body, "targets")),
             IntField("Services", Get(body, "services")),
             IntField("Routes", Get(body, "routes")),
             IntField("Upstreams", Get(body, "upstreams")) >>] >>

\* json.Unmarshal into the map variant's Metadata
DecodeMap(body) == [Counts |-> body]

Decode(v, body) == IF v = "reflect" THEN DecodeStruct(body) ELSE DecodeMap(body)

Put(c, k, x) == [y \in DOMAIN c \cup {k} |-> IF y = k THEN x ELSE c[y]]

\* updateCounts without the test for zero
RECURSIVE updateCountsReflectNoZeroTest(_, _), NoZeroTestFrom(_, _, _)
updateCountsReflectNoZeroTest(obj, c) == NoZeroTestFrom(obj, 1, c)

NoZeroTestFrom(obj, i, c) ==
    IF i > Len(obj)
    THEN c
    ELSE LET field == obj[i]
             c1 == CASE field.kind = "int" ->
                           Put(c, field.name, Get(c, field.name) + field.value)
                      [] field.kind = "struct" ->
                           updateCountsReflectNoZeroTest(field.value, c)
                      [] OTHER -> c
         IN  NoZeroTestFrom(obj, i + 1, c1)

\* updateCounts that stores the field's value instead of adding it
RECURSIVE updateCountsReflectOverwrite(_, _), OverwriteFrom(_, _, _)
updateCountsReflectOverwrite(obj, c) == OverwriteFrom(obj, 1, c)

OverwriteFrom(obj, i, c) ==
    IF i > Len(obj)
    THEN c
    ELSE LET field == obj[i]
             c1 == CASE field.kind = "int" ->
                           IF field.value # 0 THEN Put(c, field.name, field.value) ELSE c
                      [] field.kind = "struct" ->
                           updateCountsReflectOverwrite(field.value, c)
                      [] OTHER -> c
         IN  OverwriteFrom(obj, i + 1, c1)

\* updateCounts, reflect variant: lines 152-169
RECURSIVE updateCountsReflect(_, _), UpdateFieldsFrom(_, _, _)
updateCountsReflect(obj, c) == UpdateFieldsFrom(obj, 1, c)

UpdateFieldsFrom(obj, i, c) ==
    IF i > Len(obj)
    THEN c
    ELSE LET field == obj[i]
             c1 == CASE field.kind = "int" ->
                           IF field.value # 0
                           THEN Put(c, field.name, Get(c, field.name) + field.value)
                           ELSE c
                      [] field.kind = "struct" -> updateCountsReflect(field.value, c)
                      [] OTHER -> c
         IN  UpdateFieldsFrom(obj, i + 1, c1)

\* updateCounts that stores the value instead of adding it
updateCountsMapOverwrite(metaCounts, c) ==
    [key \in DOMAIN c \cup DOMAIN metaCounts |->
        IF key \in DOMAIN metaCounts THEN metaCounts[key] ELSE c[key]]

\* updateCounts, map variant: lines 383-391
updateCountsMap(metaCounts, c) ==
    [key \in DOMAIN c \cup DOMAIN metaCounts |->
        IF key \in DOMAIN metaCounts
        THEN IF key \in DOMAIN c THEN c[key] + metaCounts[key] ELSE metaCounts[key]
        ELSE c[key]]

\* the call of updateCounts in main: lines 82 and 304
updateCounts(v, meta, c) ==
    IF v = "reflect" THEN updateCountsReflect(meta, c) ELSE updateCountsMap(meta.Counts, c)

(***************************************************************************)
(* Tables                                                                  *)
(***************************************************************************)
Perms(S) == { f \in [1..Cardinality(S) -> S] : \A x \in S : \E i \in DOMAIN f : f[i] = x }

\* the Counts.<Field> reads of printWorkspaceMetadataTable, reflect variant
StructCount(meta, f) ==
    LET cs == meta[1].value
    IN  cs[CHOOSE i \in DOMAIN cs : cs[i].name = f].value

\* one row of printWorkspaceMetadataTable: lines 175-186 and 397-405
WorkspaceRow(v, wm) ==
    IF v = "reflect"
    THEN << wm.WorkspaceName,
            Itoa(StructCount(wm.Meta, "Plugins")),
            Itoa(StructCount(wm.Meta, "Targets")),
            Itoa(StructCount(wm.Meta, "Services")),
            Itoa(StructCount(wm.Meta, "Routes")),
            Itoa(StructCount(wm.Meta, "Upstreams")) >>
    ELSE << wm.WorkspaceName,
            Itoa(Get(wm.Meta.Counts, "plugins")),
            Itoa(Get(wm.Meta.Counts, "targets")),
            Itoa(Get(wm.Meta.Counts, "services")),
            Itoa(Get(wm.Meta.Counts, "routes")),
            Itoa(Get(wm.Meta.Counts, "upstreams")) >>

printWorkspaceMetadataTable(v, list) == [i \in DOMAIN list |-> WorkspaceRow(v, list[i])]

\* a comparison that sorts descending
LessDescending(x, y) == x.Count > y.Count

\* the less function handed to sort.Slice: line 426
Less(x, y) == x.Count < y.Count

\* sort.Slice on a short slice is an insertion sort: each element is swapped
\* towards the front while it is less than its predecessor
RECURSIVE InsertLast(_)
InsertLast(s) ==
    IF Len(s) >= 2 /\ Less(s[Len(s)], s[Len(s) - 1])
    THEN InsertLast(SubSeq(s, 1, Len(s) - 2) \o <<s[Len(s)]>>) \o <<s[Len(s) - 1]>>
    ELSE s

RECURSIVE SortSlice(_)
SortSlice(s) ==
    IF Len(s) <= 1 THEN s
    ELSE InsertLast(SortSlice(SubSeq(s, 1, Len(s) - 1)) \o <<s[Len(s)]>>)

WorkspacesRow(n) == << "Workspaces", Itoa(n) >>

FieldRow(mf) == << mf.Field, Itoa(mf.Count) >>

\* printCountsTable; order is the order in which range visits the map.
\* reflect variant (lines 191-207): the fields as visited, then Workspaces.
\* map variant (lines 410-446): Workspaces, then the fields sorted by count.
printCountsTable(v, c, order, workspaceCount) ==
    LET metaFields == [i \in DOMAIN order |-> [Field |-> order[i], Count |-> c[order[i]]]]
        sorted == SortSlice(metaFields)
    IN  IF v = "reflect"
        THEN [i \in DOMAIN metaFields |-> FieldRow(metaFields[i])]
                 \o <<WorkspacesRow(workspaceCount)>>
        ELSE <<WorkspacesRow(workspaceCount)>>
                 \o [i \in DOMAIN sorted |-> FieldRow(sorted[i])]

\* the workspace count main hands to printCountsTable: lines 98 and 323
WorkspaceCountArg(v, ws, list) == IF v = "reflect" THEN Len(ws) ELSE Len(list)

\* a --meta test that prints a table only under "all"
OnlyUnderAll(meta) == meta = "all"

\* line 315
PrintsWorkspaceTable(meta) == meta = "workspace" \/ meta = "all"

\* line 321
PrintsCountsTable(meta) == meta = "counts" \/ meta = "all"

(***************************************************************************)
(* Inputs                                                                  *)
(***************************************************************************)
Variants == {"reflect", "map"}

\* --headers values: every string over a key letter, the colon and the blank up
\* to MaxFlagLen, and the flags of the documentation
FlagAlphabet == {"k", ":", " "}

Secret == <<"s", "e", "c", "r", "e", "t">>

XTokenFlag == XAdminToken \o <<":">> \o Secret

XTokenFlagSpaced ==
    <<" ", "X", "-", "A", "d", "m", "i", "n", "-", "T", "o", "k", "e", "n", " ", ":", " ">>
        \o Secret \o <<" ">>

KeyValueFlag == <<"k", ":", "v">>

TwoColonFlag == <<"k", ":", "v", ":", "w">>

NoColonFlag == <<"k", "v">>

FlagValues ==
    SeqsUpTo(FlagAlphabet, MaxFlagLen)
        \cup {XTokenFlag, XTokenFlagSpaced, KeyValueFlag, TwoColonFlag, NoColonFlag}

TokenValues == {<<>>, <<"e", "n", "v">>}

\* --meta: unset in the reflect variant, which has no such flag
MetaValues(v) == IF v = "reflect" THEN {"unset"} ELSE {"counts", "workspace", "all", "other"}

WorkspaceLists == SeqsUpTo(Names, MaxWorkspaces)

ListOutcomes ==
    { [kind |-> k, data |-> <<>>] : k \in ErrKinds }
        \cup { [kind |-> "ok", data |-> ws] : ws \in WorkspaceLists }

CountValues == 0..MaxCount

Bodies ==
    PartialMaps({"plugins", "routes"}, CountValues)
        \cup { [k \in {"plugins", "consumers"} |-> 1] }

RichOutcomes == { Failure(k) : k \in ErrKinds } \cup { Success(b) : b \in Bodies }

FewOutcomes == { Failure("doErr"), Success([k \in {"plugins"} |-> 1]) }

TypeStart ==
    /\ pc = "start"
    /\ headers = NoHeaders
    /\ workspaces = <<>>
    /\ idx = 1
    /\ counts = EmptyMap
    /\ workspaceMetadataList = <<>>
    /\ requests = <<>>
    /\ output = <<>>
    /\ mergeInputs = <<>>
    /\ mergePending = {}

\* every flag and environment, against a small server
Init ==
    /\ variant \in Variants
    /\ headersFlag \in FlagValues
    /\ envToken \in TokenValues
    /\ metaFlag \in MetaValues(variant)
    /\ listOutcome \in ListOutcomes
    /\ server \in [Names -> FewOutcomes]
    /\ TypeStart

\* every server, with no header flag and no token
InitLoop ==
    /\ variant \in Variants
    /\ headersFlag = <<>>
    /\ envToken = <<>>
    /\ metaFlag = IF variant = "reflect" THEN "unset" ELSE "all"
    /\ listOutcome \in ListOutcomes
    /\ server \in [Names -> RichOutcomes]
    /\ TypeStart

\* a few flags (none, a valid one, one whose key is empty), against a small server
InitFair ==
    /\ variant \in Variants
    /\ headersFlag \in {<<>>, KeyValueFlag, <<":">>}
    /\ envToken \in TokenValues
    /\ metaFlag \in MetaValues(variant)
    /\ listOutcome \in ListOutcomes
    /\ server \in [Names -> FewOutcomes]
    /\ TypeStart

(***************************************************************************)
(* main                                                                    *)
(***************************************************************************)
inputs == <<variant, headersFlag, envToken, metaFlag, listOutcome, server>>

harness == <<mergeInputs, mergePending>>

ErrorLine(k, n) == [kind |-> k, name |-> n, rows |-> <<>>]

Table(k, r) == [kind |-> k, name |-> "", rows |-> r]

\* lines 44-57 and 267-279: the flags are parsed; the reflect variant resolves
\* its headers once
ParseFlags ==
    /\ pc = "start"
    /\ headers' = IF variant = "reflect" THEN getHeaders(headersFlag, envToken) ELSE headers
    /\ pc' = "list"
    /\ UNCHANGED <<inputs, harness, workspaces, idx, counts, workspaceMetadataList,
                   requests, output>>

\* a failed listing that falls through to the loop with no workspaces
GetWorkspacesFailNoReturn ==
    /\ pc = "list"
    /\ listOutcome.kind # "ok"
    /\ output' = Append(output, ErrorLine("listError", ""))
    /\ workspaces' = <<>>
    /\ pc' = "loop"
    /\ UNCHANGED <<inputs, harness, headers, idx, counts, workspaceMetadataList, requests>>

\* lines 59-65 and 281-287 with getWorkspaces returning an error
GetWorkspacesFail ==
    /\ pc = "list"
    /\ listOutcome.kind # "ok"
    /\ output' = Append(output, ErrorLine("listError", ""))
    /\ pc' = "exit"
    /\ UNCHANGED <<inputs, harness, headers, workspaces, idx, counts,
                   workspaceMetadataList, requests>>

\* lines 59-71 and 281-293 with getWorkspaces returning response.Data
GetWorkspacesOk ==
    /\ pc = "list"
    /\ listOutcome.kind = "ok"
    /\ workspaces' = [i \in DOMAIN listOutcome.data |-> [Name |-> listOutcome.data[i]]]
    /\ idx' = 1
    /\ counts' = EmptyMap
    /\ workspaceMetadataList' = <<>>
    /\ pc' = "loop"
    /\ UNCHANGED <<inputs, harness, headers, requests, output>>

\* getMetadata for the workspace at idx: the request it hands to client.Do and
\* what it returns (lines 122-150 and 348-381)
CurrentName == workspaces[idx].Name

CurrentRequest ==
    LET h == RequestHeader(variant, headers, headersFlag)
    IN  [name |-> CurrentName, header |-> h, sent |-> HeaderSendable(h)]

getMetadata ==
    IF ~CurrentRequest.sent THEN Failure("doErr") ELSE server[CurrentName]

\* a failed fetch that leaves the loop
FetchFailBreak ==
    /\ pc = "loop"
    /\ idx <= Len(workspaces)
    /\ getMetadata.kind # "ok"
    /\ requests' = Append(requests, CurrentRequest)
    /\ output' = Append(output, ErrorLine("metaError", CurrentName))
    /\ idx' = Len(workspaces) + 1
    /\ UNCHANGED <<inputs, harness, pc, headers, workspaces, counts, workspaceMetadataList>>

\* lines 73-79 and 295-301: one iteration whose getMetadata returns an error
FetchFail ==
    /\ pc = "loop"
    /\ idx <= Len(workspaces)
    /\ getMetadata.kind # "ok"
    /\ requests' = Append(requests, CurrentRequest)
    /\ output' = Append(output, ErrorLine("metaError", CurrentName))
    /\ idx' = idx + 1
    /\ UNCHANGED <<inputs, harness, pc, headers, workspaces, counts, workspaceMetadataList>>

\* lines 73-90 and 295-312: one iteration whose getMetadata succeeds
FetchOk ==
    /\ pc = "loop"
    /\ idx <= Len(workspaces)
    /\ getMetadata.kind = "ok"
    /\ LET meta == Decode(variant, getMetadata.body)
       IN  /\ counts' = updateCounts(variant, meta, counts)
           /\ workspaceMetadataList' =
                  Append(workspaceMetadataList, [WorkspaceName |-> CurrentName, Meta |-> meta])
    /\ requests' = Append(requests, CurrentRequest)
    /\ idx' = idx + 1
    /\ UNCHANGED <<inputs, harness, pc, headers, workspaces, output>>

\* lines 92-94 and 314-318: the loop is over; the per-workspace table
PrintWorkspaceMetadata ==
    /\ pc = "loop"
    /\ idx > Len(workspaces)
    /\ output' =
          IF variant = "reflect" \/ PrintsWorkspaceTable(metaFlag)
          THEN Append(output, Table("workspaceTable",
                                    printWorkspaceMetadataTable(variant, workspaceMetadataList)))
          ELSE output
    /\ pc' = "printCounts"
    /\ UNCHANGED <<inputs, harness, headers, workspaces, idx, counts,
                   workspaceMetadataList, requests>>

\* lines 96-98 and 320-324: the totals table; range visits the map in any order
PrintCounts ==
    /\ pc = "printCounts"
    /\ \E order \in Perms(DOMAIN counts) :
          output' =
             IF variant = "reflect" \/ PrintsCountsTable(metaFlag)
             THEN Append(output, Table("countsTable",
                     printCountsTable(variant, counts, order,
                         WorkspaceCountArg(variant, workspaces, workspaceMetadataList))))
             ELSE output
    /\ pc' = "done"
    /\ UNCHANGED <<inputs, harness, headers, workspaces, idx, counts,
                   workspaceMetadataList, requests>>

Next ==
    \/ ParseFlags
    \/ GetWorkspacesFail
    \/ GetWorkspacesOk
    \/ FetchFail
    \/ FetchOk
    \/ PrintWorkspaceMetadata
    \/ PrintCounts

Spec == Init /\ [][Next]_vars

SpecLoop == InitLoop /\ [][Next]_vars

\* main is one sequential thread: it always takes its next step
FairSpec == InitFair /\ [][Next]_vars /\ WF_vars(Next)

(***************************************************************************)
(* Aggregation on its own: the count maps of mergeInputs are merged into   *)
(* counts by updateCounts, in any order                                    *)
(***************************************************************************)
MergeBodies ==
    PartialMaps({"plugins"}, CountValues)
        \cup { [k \in {"routes"} |-> 1], [k \in {"plugins", "routes"} |-> 1] }

InitMerge ==
    /\ variant \in Variants
    /\ headersFlag = <<>>
    /\ envToken = <<>>
    /\ metaFlag = "unset"
    /\ listOutcome = [kind |-> "ok", data |-> <<>>]
    /\ server = [n \in Names |-> Failure("doErr")]
    /\ pc = "merge"
    /\ headers = NoHeaders
    /\ workspaces = <<>>
    /\ idx = 1
    /\ counts = EmptyMap
    /\ workspaceMetadataList = <<>>
    /\ requests = <<>>
    /\ output = <<>>
    /\ mergeInputs \in SeqsUpTo(MergeBodies, MaxMerge)
    /\ mergePending = DOMAIN mergeInputs

MergeOne ==
    /\ pc = "merge"
    /\ \E i \in mergePending :
          /\ counts' = updateCounts(variant, Decode(variant, mergeInputs[i]), counts)
          /\ mergePending' = mergePending \ {i}
    /\ UNCHANGED <<inputs, pc, headers, workspaces, idx, workspaceMetadataList,
                   requests, output, mergeInputs>>

NextMerge == MergeOne

SpecMerge == InitMerge /\ [][NextMerge]_vars

(***************************************************************************)
(* Definitions the properties are stated with                              *)
(***************************************************************************)
DigitValue(c) == CHOOSE d \in 0..9 : Digit(d) = c

RECURSIVE Atoi(_)
Atoi(s) ==
    IF s = <<>> THEN 0
    ELSE IF Head(s) = "-" THEN 0 - Atoi(Tail(s))
    ELSE 10 * Atoi(SubSeq(s, 1, Len(s) - 1)) + DigitValue(s[Len(s)])

\* the names under which a variant can aggregate, and the key of the response
\* each stands for
FieldNames(v) ==
    IF v = "reflect"
    THEN {"Plugins", "Targets", "Services", "Routes", "Upstreams"}
    ELSE {"plugins", "targets", "services", "routes", "upstreams", "consumers"}

ResponseKey(f) ==
    CASE f = "Plugins" -> "plugins" [] f = "Targets" -> "targets"
      [] f = "Services" -> "services" [] f = "Routes" -> "routes"
      [] f = "Upstreams" -> "upstreams" [] OTHER -> f

\* workspace i of the list was fetched: its request could be sent and the
\* server answered with a decodable body
Succeeded(i) ==
    /\ HeaderSendable(RequestHeader(variant, headers, headersFlag))
    /\ server[workspaces[i].Name].kind = "ok"

Reported(i, f) == Get(server[workspaces[i].Name].body, ResponseKey(f))

RECURSIVE SumReported(_, _)
SumReported(n, f) ==
    IF n = 0 THEN 0
    ELSE SumReported(n - 1, f) + (IF Succeeded(n) THEN Reported(n, f) ELSE 0)

SucceededNames(n) ==
    LET F[k \in 0..n] ==
            IF k = 0 THEN <<>>
            ELSE IF Succeeded(k) THEN Append(F[k - 1], workspaces[k].Name) ELSE F[k - 1]
    IN  F[n]

LoopOver == pc \in {"printCounts", "done"}

Tables == SelectSeq(output, LAMBDA e : e.kind \in {"workspaceTable", "countsTable"})

CountsTables == SelectSeq(output, LAMBDA e : e.kind = "countsTable")

RowCount(row) == Atoi(row[2])

(***************************************************************************)
(* Properties                                                              *)
(***************************************************************************)

\* C1: once the metadata loop is over, the aggregate holds for every field
\* name the sum of that field's count over the workspaces whose fetch
\* succeeded (0 when it has no entry), and it has no other entries; failed
\* workspaces contribute nothing.
C1_AggregateIsSumOverSucceeded ==
    LoopOver =>
        /\ DOMAIN counts \subseteq FieldNames(variant)
        /\ \A f \in FieldNames(variant) :
              Get(counts, f) = SumReported(Len(workspaces), f)

C1_Witness ==
    /\ pc = "done"
    /\ \E i, j, k \in DOMAIN workspaces :
          /\ i # j
          /\ Succeeded(i) /\ Succeeded(j) /\ ~Succeeded(k)
          /\ Reported(i, "plugins") > 0 /\ Reported(j, "plugins") > 0
          /\ Reported(i, "routes") # 0

\* C2: the count printed in the "Workspaces" row of the totals table is the
\* number of workspaces whose metadata fetch succeeded, which is the number
\* of rows of the per-workspace table.
C2_WorkspacesRowCountsSucceeded ==
    \A t \in DOMAIN CountsTables :
        \A r \in DOMAIN CountsTables[t].rows :
            CountsTables[t].rows[r][1] = "Workspaces" =>
                RowCount(CountsTables[t].rows[r]) = Len(SucceededNames(Len(workspaces)))

\* C3: when getWorkspaces returns an error, main prints the error and
\* returns: no metadata request is issued and no table is rendered.
C3_ListFailureIsFatal ==
    (listOutcome.kind # "ok" /\ pc \notin {"start", "list"}) =>
        /\ pc = "exit"
        /\ requests = <<>>
        /\ output = <<ErrorLine("listError", "")>>

C3_Witness == pc = "exit" /\ listOutcome.kind = "decodeErr"

\* the header flag as the documentation reads it
Colons(flag) == Cardinality({ i \in DOMAIN flag : flag[i] = ":" })

FlagKey(flag) ==
    LET c == CHOOSE i \in DOMAIN flag : flag[i] = ":"
    IN  TrimSpace(SubSeq(flag, 1, c - 1))

FlagValue(flag) ==
    LET c == CHOOSE i \in DOMAIN flag : flag[i] = ":"
    IN  TrimSpace(SubSeq(flag, c + 1, Len(flag)))

\* header names are compared without regard to case
SameName(a, b) == [i \in DOMAIN a |-> ToLower(a[i])] = [i \in DOMAIN b |-> ToLower(b[i])]

Carries(h, key, value) == \E k \in DOMAIN h : SameName(k, key) /\ h[k] = value

\* C4: with a --headers value of the form key:value (one colon), every
\* metadata request that is sent carries the header named by the trimmed key
\* with exactly the trimmed value, whatever the environment.
C4_FlagHeaderOnEveryRequest ==
    Colons(headersFlag) = 1 =>
        \A i \in DOMAIN requests :
            requests[i].sent =>
                Carries(requests[i].header, FlagKey(headersFlag), FlagValue(headersFlag))

\* the aggregate of the count maps merged in list order
RECURSIVE AggregateInOrder(_, _)
AggregateInOrder(v, bodies) ==
    IF bodies = <<>> THEN EmptyMap
    ELSE updateCounts(v, Decode(v, bodies[Len(bodies)]),
                      AggregateInOrder(v, SubSeq(bodies, 1, Len(bodies) - 1)))

\* C5: merging the count maps of any successfully fetched workspaces into an
\* empty aggregate gives, whatever the order, the aggregate that merging them
\* in list order gives: the same keys with the same values, in both variants.
C5_MergeOrderIndependent ==
    (pc = "merge" /\ mergePending = {}) =>
        counts = AggregateInOrder(variant, mergeInputs)

C5_Witness ==
    /\ pc = "merge"
    /\ mergePending = {}
    /\ Len(mergeInputs) = 3
    /\ mergeInputs[1] # mergeInputs[2]
    /\ mergeInputs[2] # mergeInputs[3]
    /\ \A i \in DOMAIN mergeInputs : Get(mergeInputs[i], "plugins") # 0
    /\ "routes" \in DOMAIN mergeInputs[3]

\* C6: in the reflect variant a field name is a key of the aggregate exactly
\* when a workspace fetched so far reported a non-zero count for it: a zero
\* count never creates an entry.
C6_ZeroFieldsLeaveNoEntry ==
    (variant = "reflect" /\ pc \in {"loop", "printCounts", "done"}) =>
        /\ DOMAIN counts \subseteq FieldNames(variant)
        /\ \A f \in FieldNames(variant) :
              f \in DOMAIN counts <=>
                  \E i \in 1..(idx - 1) : Succeeded(i) /\ Reported(i, f) # 0

C6_Witness ==
    /\ variant = "reflect"
    /\ pc = "done"
    /\ "Plugins" \in DOMAIN counts
    /\ "Routes" \notin DOMAIN counts
    /\ \E i \in DOMAIN workspaces :
          /\ Succeeded(i)
          /\ "routes" \in DOMAIN server[workspaces[i].Name].body
          /\ Reported(i, "Routes") = 0

NonDecreasingFrom(rows, first) ==
    \A i, j \in first..Len(rows) : i < j => RowCount(rows[i]) <= RowCount(rows[j])

\* C7 as stated: in the sorting variant the rows of the totals table are in
\* non-decreasing order of count from the first row to the last.
C7_AllRowsNonDecreasing ==
    variant = "map" =>
        \A t \in DOMAIN CountsTables : NonDecreasingFrom(CountsTables[t].rows, 1)

\* C7 amended: in the sorting variant the totals table opens with the
\* Workspaces row, and the meta-field rows after it are in non-decreasing
\* order of count.
C7_FieldRowsNonDecreasing ==
    variant = "map" =>
        \A t \in DOMAIN CountsTables :
            LET rows == CountsTables[t].rows
            IN  /\ Len(rows) = Cardinality(DOMAIN counts) + 1
                /\ rows[1][1] = "Workspaces"
                /\ NonDecreasingFrom(rows, 2)

C7_Witness ==
    /\ variant = "map"
    /\ \E t \in DOMAIN CountsTables :
          LET rows == CountsTables[t].rows
          IN  /\ Len(rows) = 4
              /\ RowCount(rows[2]) < RowCount(rows[3])
              /\ RowCount(rows[3]) < RowCount(rows[4])
              /\ RowCount(rows[1]) > RowCount(rows[2])

TableKinds == [i \in DOMAIN Tables |-> Tables[i].kind]

\* C8: after a successful listing, --meta workspace prints only the
\* per-workspace table, --meta counts (the default) only the totals table,
\* --meta all both, the per-workspace table first.
C8_MetaSelectsTables ==
    (variant = "map" /\ pc = "done") =>
        /\ metaFlag = "workspace" => TableKinds = <<"workspaceTable">>
        /\ metaFlag = "counts" => TableKinds = <<"countsTable">>
        /\ metaFlag = "all" => TableKinds = <<"workspaceTable", "countsTable">>

C8_Witness ==
    /\ variant = "map"
    /\ pc = "done"
    /\ metaFlag = "workspace"
    /\ Len(Tables) = 1
    /\ Len(Tables[1].rows) = 2

\* the headers of a request when no --headers flag is given
HeaderWithoutFlag ==
    IF variant = "reflect" /\ envToken # <<>>
    THEN [k \in {<<"X", "-", "A", "d", "m", "i", "n", "-", "T", "o", "k", "e", "n">>} |-> envToken]
    ELSE NoHeaders

\* C9: a non-empty --headers value without exactly one colon adds no header
\* and raises no error: every request goes out with the headers it has when
\* the flag is empty, and the workspaces fetched are those the server answers.
C9_MalformedFlagIgnored ==
    (headersFlag # <<>> /\ Colons(headersFlag) # 1) =>
        /\ \A i \in DOMAIN requests :
              /\ requests[i].sent
              /\ requests[i].header = HeaderWithoutFlag
        /\ [i \in DOMAIN workspaceMetadataList |-> workspaceMetadataList[i].WorkspaceName]
              = SelectSeq([i \in 1..Len(requests) |-> requests[i].name],
                          LAMBDA n : server[n].kind = "ok")

C9_Witness ==
    /\ headersFlag = TwoColonFlag
    /\ pc = "done"
    /\ Len(requests) = 2
    /\ Len(workspaceMetadataList) = 1

\* what holds of the loop at each of its steps
C10_LoopSafety ==
    pc \in {"loop", "printCounts", "done"} =>
        /\ idx \in 1..(Len(workspaces) + 1)
        /\ LoopOver => idx = Len(workspaces) + 1
        /\ [i \in DOMAIN requests |-> requests[i].name]
              = [i \in 1..(idx - 1) |-> listOutcome.data[i]]
        /\ [i \in DOMAIN workspaceMetadataList |-> workspaceMetadataList[i].WorkspaceName]
              = SucceededNames(idx - 1)
        /\ \A t \in DOMAIN Tables :
              Tables[t].kind = "workspaceTable" =>
                  [r \in DOMAIN Tables[t].rows |-> Tables[t].rows[r][1]]
                      = SucceededNames(Len(workspaces))

\* C10: the loop hands one request per listed workspace to the client, in
\* list order, going on after a failure without a retry (a request the client
\* refuses for its header counts as handed over and failed); the rows of the
\* per-workspace table are the fetched workspaces in list order; and the run
\* ends.
C10_OneRequestEachInOrderAndEnds ==
    [](C10_LoopSafety) /\ <>(pc \in {"done", "exit"})

C10_Witness ==
    /\ pc = "done"
    /\ Len(workspaces) = 3
    /\ Succeeded(1) /\ ~Succeeded(2) /\ Succeeded(3)
    /\ workspaces[1].Name # workspaces[2].Name

====
